---- MODULE Spec2Model ----
(***************************************************************************)
(* A model of gramex/cache.py: the file cache (open), the query cache      *)
(* (query, _table_status), the module watcher (reload_module) and the      *)
(* threaded process-output reader (Subprocess).                            *)
(*                                                                         *)
(* The four components keep their state in four separate module-level      *)
(* dictionaries / objects, so each has its own specification over the      *)
(* variables it owns; Spec is their interleaving.                          *)
(***************************************************************************)
EXTENDS Integers, Sequences, FiniteSets, TLC

\* ------------------------------------------------------------------ bounds
MaxTime == 2        \* modification times are 1..MaxTime
MaxData == 2        \* a database's data is one of the versions 1..MaxData
MaxAct == 2         \* a database's activity counters / update times are 1..MaxAct
MaxHandles == 2     \* reload_module() is called with 1..MaxHandles modules
MaxOut == 3         \* the child writes at most MaxOut bytes in all
MaxBuf == 2         \* a numeric buffer_size is at most MaxBuf
MaxCallbacks == 2   \* a stream has at most MaxCallbacks callbacks
DefaultBufferSize == 2  \* stands for io.DEFAULT_BUFFER_SIZE (cache.py:386)

VARIABLES
    files,          \* the file system seen by stat(): path -> file
    _OPEN_CACHE,    \* cache.py:87  {(path, callback): {data, stat}}
    lastLoad,       \* history: key -> what the last open() that returned
                    \* reloaded=True loaded, and the token it saw
    conn,           \* the engine the application has created
    dbstate,        \* the database behind conn: [data, act]
    _QUERY_CACHE,   \* cache.py:196  {(sql, engine.url): {data, status}}
    _STATUS_METHODS,\* cache.py:197  {(engine.url, tables): probe}
    modfiles,       \* the source and bytecode files of the modules
    _MODULE_CACHE,  \* cache.py:302  {module_name: file_stat}
    buffer_size,    \* Subprocess: [line, size] as __init__ has resolved it
    rawio,          \* the pipes are unbuffered raw streams (Popen bufsize=0)
    callbacks,      \* stream -> the number of callbacks registered for it
    written,        \* stream -> the bytes the child has written
    wclosed,        \* stream -> the child has closed its end
    rpos,           \* stream -> the number of bytes the reader has read
    content,        \* stream -> what the last read returned
    cb,             \* stream -> index of the callback to call next
    pc,             \* stream -> where the thread running _write is
    delivered,      \* stream -> callback index -> what it was called with
    rclosed,        \* stream -> stream.close() was called
    future,         \* stream -> the number of future.set_result() calls
    threads,        \* thread -> the call of open() or query() it is running
    lastStore,      \* history: key -> the thread that wrote the entry last,
                    \* and the entry it wrote
    ret             \* outcome of the call made by the last step

openVars == <<files, _OPEN_CACHE, lastLoad>>
queryVars == <<conn, dbstate, _QUERY_CACHE, _STATUS_METHODS>>
moduleVars == <<modfiles, _MODULE_CACHE>>
procVars == <<buffer_size, rawio, callbacks, written, wclosed, rpos, content, cb, pc,
              delivered, rclosed, future>>
\* what the Subprocess threads and the child leave alone
concVars == <<threads, lastStore>>
notProcVars == <<openVars, queryVars, moduleVars, concVars, ret>>
vars == <<openVars, queryVars, moduleVars, procVars, concVars, ret>>

\* Python's None, where a string or a name is expected
None == "None"
\* the step was not a call of the library
NoRet == [op |-> "none"]

\* ------------------------------------------------------------ file system
Paths == {"a.json"}
\* What a file holds: two contents of the same size and one of another size.
Contents == {<<"a">>, <<"b">>, <<"a", "b">>}
NoFile == [exists |-> FALSE, mtime |-> 0, content |-> <<>>]
Files == {NoFile} \cup [exists : {TRUE}, mtime : 1..MaxTime, content : Contents]

\* cache.py:75-82  (st_mtime, st_size), or (None, None) for a missing file
\* A real file has mtime >= 1, so NoneStat equals no real stat.
NoneStat == <<-1, -1>>
stat(f) == IF f.exists THEN <<f.mtime, Len(f.content)>> ELSE NoneStat

\* -------------------------------------------------------------- open()
\* cache.py:89-107  the names registered in _CALLBACKS
_CALLBACKS == {"txt", "text", "yaml", "json", "csv", "excel", "xls", "xlsx", "hdf",
               "html", "sas", "stata", "table", "template", "md", "markdown", "config"}
\* cache.py:29-66, 69-72  the registered loaders built by opener(): they io.open the path
OpenerBased == {"txt", "text", "yaml", "json", "template", "md", "markdown"}

\* The callbacks a caller passes: a function, a registered name, an
\* unregistered name, and an object that is neither callable nor a string.
Functions == {"fn1"}
Strings == {"json", "bogus"}
Others == {"int5"}
Callbacks == Functions \cup Strings \cup Others
Transforms == {None, "tf"}
Kwargs == {"kw1"}

callable(x) == x \in Functions \cup {"tf"}
is_str(x) == x \in Strings

\* cache.py:172  key = (path, callback if callback_is_str else id(callback))
KeyOf(path, callback) ==
    <<path, IF is_str(callback) THEN <<"str", callback>> ELSE <<"id", callback>> >>

\* cache.py:173-175  cached = _cache.get(key, None);
\* cached is None or fstat != cached.get('stat')
IsMissAlways(cache, key, fstat) == TRUE
IsMissNoEntry(cache, key, fstat) == key \notin DOMAIN cache
IsMiss(cache, key, fstat) == key \notin DOMAIN cache \/ fstat # cache[key].stat

\* no value: the call raised
NoData == [by |-> None, path |-> None, content |-> <<>>, kw |-> None, tf |-> None]

\* What a loader returns for a file: it depends on the loader, the path, the
\* content read and the keyword options forwarded to it (cache.py:178, 182).
Loaded(callback, path, f, kw) ==
    [by |-> callback, path |-> path, content |-> f.content, kw |-> kw, tf |-> None]

\* cache.py:187-188  data = transform(data) when transform is callable
Transformed(data, transform) ==
    IF callable(transform) THEN [data EXCEPT !.tf = transform] ELSE data

\* cache.py:56-65  an opener-based loader raises when io.open finds no file;
\* any loader may raise on what it reads (lraise).
LoaderRaises(callback, f, lraise) ==
    lraise \/ (callback \in OpenerBased /\ ~f.exists)

\* cache.py:177-186  the callback is a function, or a name found in _CALLBACKS
CanLoadAnyString(callback) == callable(callback) \/ is_str(callback)
CanLoad(callback) ==
    callable(callback) \/ (is_str(callback) /\ callback \in _CALLBACKS)

\* variants of the store: one that keeps an entry that is there, one that
\* writes the data of an entry and leaves its token
StoreIfAbsent(cache, key, entry) ==
    [k \in DOMAIN cache \cup {key} |-> IF k \in DOMAIN cache THEN cache[k] ELSE entry]
StoreDataOnly(cache, key, entry) ==
    [k \in DOMAIN cache \cup {key} |->
        IF k # key THEN cache[k]
        ELSE IF k \in DOMAIN cache THEN [cache[k] EXCEPT !.data = entry.data]
        ELSE entry]

\* cache.py:189, 291-294  _cache[key] = {...}: one assignment of the whole entry
StoreEntry(cache, key, entry) ==
    [k \in DOMAIN cache \cup {key} |-> IF k = key THEN entry ELSE cache[k]]

\* cache.py:177-189, 291-295  the loader, the transform or read_sql raises: the
\* exception leaves the function before the assignment of the entry
FailedCallStores(cache, key, entry) == StoreEntry(cache, key, entry)
FailedCall(cache, key, entry) == cache

\* cache.py:171-172  the key is built from the path and the callback; the
\* transform and the keyword options of the call are no part of it
OpenKeyWithOptions(path, callback, transform, kw) ==
    <<path, <<kw, IF callable(transform) THEN transform ELSE callback>> >>
OpenKey(path, callback, transform, kw) == KeyOf(path, callback)

\* cache.py:110-192  one call of open(); returns the new cache and the outcome.
\* The outcome records whether the loader and the transform were invoked.
OpenCall(cache, fs, path, callback, transform, kw, lraise, traise) ==
    LET key == OpenKey(path, callback, transform, kw)
        fstat == stat(fs[path])
        call == [op |-> "open", path |-> path, callback |-> callback,
                 transform |-> transform, kw |-> kw, key |-> key, fstat |-> fstat,
                 reloaded |-> FALSE, loaded |-> FALSE, transformed |-> FALSE,
                 error |-> None, result |-> NoData]
    IN  IF IsMiss(cache, key, fstat)
        THEN IF CanLoad(callback)
             THEN IF LoaderRaises(callback, fs[path], lraise)
                  THEN [cache |-> FailedCall(cache, key, [data |-> NoData, stat |-> fstat]),
                        ret |-> [call EXCEPT !.loaded = TRUE, !.error = "LoaderError"]]
                  ELSE IF callable(transform) /\ traise
                  THEN [cache |-> FailedCall(cache, key, [data |-> NoData, stat |-> fstat]),
                        ret |-> [call EXCEPT !.loaded = TRUE, !.transformed = TRUE,
                                             !.error = "TransformError"]]
                  ELSE LET data == Transformed(Loaded(callback, path, fs[path], kw),
                                               transform)
                       IN [cache |-> StoreEntry(cache, key,
                                                [data |-> data, stat |-> fstat]),
                           ret |-> [call EXCEPT !.loaded = TRUE,
                                                !.transformed = callable(transform),
                                                !.reloaded = TRUE, !.result = data]]
             ELSE \* cache.py:184, 186  raise TypeError
                  [cache |-> cache, ret |-> [call EXCEPT !.error = "TypeError"]]
        ELSE [cache |-> cache, ret |-> [call EXCEPT !.result = cache[key].data]]

\* a call of open() with a callback of Cbs and keyword options of Kws
OpenStep(Cbs, Kws) ==
    \E path \in Paths, callback \in Cbs, transform \in Transforms,
       kw \in Kws, lraise \in BOOLEAN, traise \in BOOLEAN :
        LET r == OpenCall(_OPEN_CACHE, files, path, callback, transform, kw,
                          lraise, traise)
        IN  /\ traise => ~lraise
            /\ (lraise \/ traise) => r.ret.error \in {"LoaderError", "TransformError"}
            /\ _OPEN_CACHE' = r.cache
            /\ ret' = r.ret
            /\ lastLoad' = IF r.ret.reloaded
                           THEN [k \in DOMAIN lastLoad \cup {r.ret.key} |->
                                   IF k = r.ret.key
                                   THEN [data |-> r.ret.result, stat |-> r.ret.fstat]
                                   ELSE lastLoad[k]]
                           ELSE lastLoad
            /\ UNCHANGED <<files, queryVars, moduleVars, procVars, concVars>>

open == OpenStep(Callbacks, Kwargs)

\* the calls that differ in their options: one function, with and without a
\* transform and with two keyword options
OptionCallbacks == {"fn1"}
OptionKwargs == {"kw1", "kw2"}
open_options == OpenStep(OptionCallbacks, OptionKwargs)

\* The environment writes, touches or replaces a file.
WriteFile ==
    \E path \in Paths, f \in Files :
        /\ f.exists
        /\ f # files[path]
        /\ files' = [files EXCEPT ![path] = f]
        /\ ret' = NoRet
        /\ UNCHANGED <<_OPEN_CACHE, lastLoad, queryVars, moduleVars, procVars, concVars>>

\* The environment removes a file.
DeleteFile ==
    \E path \in Paths :
        /\ files[path].exists
        /\ files' = [files EXCEPT ![path] = NoFile]
        /\ ret' = NoRet
        /\ UNCHANGED <<_OPEN_CACHE, lastLoad, queryVars, moduleVars, procVars, concVars>>

InitOpen ==
    /\ files \in [Paths -> Files]
    /\ _OPEN_CACHE = <<>>
    /\ lastLoad = <<>>

\* ------------------------------------------------------------- query()
\* Strings that the code takes apart are sequences of one-character strings.
Dot == "."
\* a table name that is not a string (cache.py:231)
NonString == <<"<not a str>">>
\* a table name that is a list: not a string, and not hashable (cache.py:226-227)
Unhashable == <<"<a list>">>
isinstance_str(name) == name \notin {NonString, Unhashable}
\* cache.py:226-227  a tuple is a dict key only if every item of it is hashable
hashable(tables) == \A i \in 1..Len(tables) : tables[i] # Unhashable

Range(seq) == {seq[i] : i \in 1..Len(seq)}

\* an engine: its url (the connection identity), dialect name and database name
\* (the empty name stands for None)
MySQL == [url |-> "mysql://h/s", dialect |-> "mysql", database |-> <<"s">>]
MSSQL == [url |-> "mssql://h/s", dialect |-> "mssql", database |-> <<"s">>]
Postgres == [url |-> "postgresql://h/s", dialect |-> "postgresql", database |-> <<"s">>]
SQLiteFile == [url |-> "sqlite:///f", dialect |-> "sqlite", database |-> <<"f">>]
SQLiteMem == [url |-> "sqlite://", dialect |-> "sqlite", database |-> <<>>]
Oracle == [url |-> "oracle://h/s", dialect |-> "oracle", database |-> <<"s">>]
Engines == {MySQL, MSSQL, Postgres, SQLiteFile, SQLiteMem, Oracle}

\* the one table that exists in every database, in the schema named by the
\* engine's database, and for postgresql in the schema public
Public == <<"p", "u", "b", "l", "i", "c">>
RealTable(engine, db, table) ==
    /\ table = <<"o">>
    /\ db = IF engine.dialect = "postgresql" THEN Public ELSE engine.database

\* cache.py:209  the maxsplit argument of name.rsplit('.', 2)
RSplitMax == 2

\* str.rsplit(sep, maxsplit): the parts of s, split at the last maxsplit dots
RECURSIVE rsplit(_, _)
rsplit(s, maxsplit) ==
    IF maxsplit = 0 \/ Dot \notin Range(s)
    THEN <<s>>
    ELSE LET i == CHOOSE j \in 1..Len(s) :
                     s[j] = Dot /\ \A k \in (j + 1)..Len(s) : s[k] # Dot
         IN  Append(rsplit(SubSeq(s, 1, i - 1), maxsplit - 1),
                    SubSeq(s, i + 1, Len(s)))

\* cache.py:209  db, table = name.rsplit('.', 2) if '.' in name else (default_db, name)
SplitName(default_db, name) ==
    IF Dot \in Range(name) THEN rsplit(name, RSplitMax) ELSE <<default_db, name>>

\* cache.py:200-215  _wheres: the (db, table) conditions of the WHERE clause, in
\* the order of names; unpacking anything but two parts raises ValueError.
NoFn == <<"", "">>
_wheres(dbkey, tablekey, default_db, names, fn) ==
    IF \E i \in 1..Len(names) : Len(SplitName(default_db, names[i])) # 2
    THEN [error |-> "ValueError: unpack", where |-> <<>>]
    ELSE [error |-> None,
          where |-> [i \in 1..Len(names) |->
                        LET p == SplitName(default_db, names[i])
                        IN  [dbkey |-> dbkey, dbfn |-> fn[1], db |-> p[1],
                             tablekey |-> tablekey, tablefn |-> fn[2], table |-> p[2]]]]

\* Python's None as a status, and the statuses of the three kinds of state
NoneStatus == [k |-> "None", v |-> <<>>]
Statuses == {NoneStatus} \cup [k : {"obj"}, v : {<<1>>, <<2>>}]

\* cache.py:253  lambda: stat(q), on the database's backing file: every write
\* of the database sets its modification time
StatProbe(path, d) ==
    [k |-> "stat", v |-> stat([exists |-> TRUE, mtime |-> d.act, content |-> <<"a">>])]
\* cache.py:255  lambda: pd.read_sql(q, engine).to_json(orient='records'): the
\* catalog rows of the tables the WHERE clause selects
SqlProbe(engine, where, d) ==
    [k |-> "json",
     v |-> IF \E i \in 1..Len(where) : RealTable(engine, where[i].db, where[i].table)
           THEN <<d.act>> ELSE <<>>]

\* a variant of the closure that answers as the database was at first
RunProbeAtFirst(probe, engine, d) ==
    IF probe.kind = "stat" THEN StatProbe(probe.path, [data |-> 1, act |-> 1])
    ELSE SqlProbe(engine, probe.where, [data |-> 1, act |-> 1])

\* the memoized closure: stat(q) for sqlite, the SQL statement q for the others
RunProbe(probe, engine, d) ==
    IF probe.kind = "stat" THEN StatProbe(probe.path, d)
    ELSE SqlProbe(engine, probe.where, d)

\* cache.py:237, 241, 245  the database that _wheres pairs a bare name with:
\* db = engine.url.database for mysql and mssql, 'public' for postgresql
DefaultDbIsDatabase(engine) == engine.database
DefaultDb(engine) ==
    IF engine.dialect = "postgresql" THEN Public ELSE engine.database

\* cache.py:233-251  the probe built for a dialect
BuildProbe(engine, tables) ==
    LET db == engine.database
        sql(select, w) == [error |-> w.error,
                           probe |-> [kind |-> "sql", select |-> select,
                                      path |-> <<>>, where |-> w.where]]
    IN  CASE engine.dialect = "mysql" ->
               sql("SELECT update_time FROM information_schema.tables",
                   _wheres("table_schema", "table_name", DefaultDb(engine), tables, NoFn))
          [] engine.dialect = "mssql" ->
               sql("SELECT last_user_update FROM sys.dm_db_index_usage_stats",
                   _wheres("database_id", "object_id", DefaultDb(engine), tables,
                           <<"DB_ID", "OBJECT_ID">>))
          [] engine.dialect = "postgresql" ->
               sql("SELECT n_tup_ins, n_tup_upd, n_tup_del FROM pg_stat_all_tables",
                   _wheres("schemaname", "relname", DefaultDb(engine), tables, NoFn))
          [] engine.dialect = "sqlite" ->
               [error |-> IF db = <<>> THEN "KeyError: memory sqlite" ELSE None,
                probe |-> [kind |-> "stat", select |-> "", path |-> db, where |-> <<>>]]
          [] OTHER ->
               [error |-> "KeyError: dialect",
                probe |-> [kind |-> "sql", select |-> "", path |-> <<>>, where |-> <<>>]]

\* cache.py:228-232  the table list is not empty and every name is a non-empty string
ValidTables(tables) ==
    /\ Len(tables) # 0
    /\ \A i \in 1..Len(tables) : tables[i] # <<>> /\ isinstance_str(tables[i])

\* all the orders of a list, and the one of them a key sorted by name would hold
Orders(tables) ==
    {[i \in 1..Len(tables) |-> tables[f[i]]] :
        f \in {g \in [1..Len(tables) -> 1..Len(tables)] :
                  \A i, j \in 1..Len(tables) : g[i] = g[j] => i = j}}
StatusKeySorted(engine, tables) ==
    <<engine.url, CHOOSE t \in Orders(tables) : TRUE>>

\* cache.py:226  key = (engine.url, tuple(tables))
StatusKey(engine, tables) == <<engine.url, tables>>

\* cache.py:218-256  _table_status: the probe is built on the first call for
\* (engine.url, tables) and run on every call. The messages of the exceptions
\* tell apart what raises the same class: "KeyError: dialect" (line 251),
\* "KeyError: memory sqlite" (line 248), "ValueError: unpack" (line 209).
_table_status(methods, engine, tables, d) ==
    LET key == StatusKey(engine, tables)
        built == BuildProbe(engine, tables)
    IN  IF ~hashable(tables)
        THEN \* cache.py:227  _STATUS_METHODS.get(key, None) hashes the key
             [methods |-> methods, error |-> "TypeError: unhashable",
              status |-> NoneStatus]
        ELSE IF key \in DOMAIN methods
        THEN [methods |-> methods, error |-> None,
              status |-> RunProbe(methods[key], engine, d)]
        ELSE IF ~ValidTables(tables)
        THEN [methods |-> methods, error |-> "ValueError", status |-> NoneStatus]
        ELSE IF built.error # None
        THEN [methods |-> methods, error |-> built.error, status |-> NoneStatus]
        ELSE [methods |-> [k \in DOMAIN methods \cup {key} |->
                              IF k = key THEN built.probe ELSE methods[k]],
              error |-> None,
              status |-> RunProbe(built.probe, engine, d)]

\* pd.read_sql(sql, engine): the rows the database holds for the query now
NoRows == [sql |-> None, url |-> None, data |-> 0]
read_sql(sql, engine, d) == [sql |-> sql, url |-> engine.url, data |-> d.data]

\* cache.py:283  a probe query: pd.read_sql(state, engine).to_dict(orient='list')
ProbeQuery(state, engine, d) == [k |-> "dict", v |-> <<d.data>>]

\* cache.py:279  _cache.get(key, {}).get('status', None)
CurrentStatus(cache, key) ==
    IF key \in DOMAIN cache THEN cache[key].status ELSE NoneStatus

\* a variant that takes a state of any other shape for a function returning None
StateStatusAnyShape(methods, engine, state, d) ==
    CASE state.kind = "tables" -> _table_status(methods, engine, state.tables, d)
      [] state.kind = "sql" ->
           [methods |-> methods, error |-> None, status |-> ProbeQuery(state, engine, d)]
      [] OTHER ->
           [methods |-> methods, error |-> None, status |-> state.returns]

\* cache.py:280-288  the status of the state: a table list, a probe query, a
\* function, or anything else (TypeError)
StateStatus(methods, engine, state, d) ==
    CASE state.kind = "tables" -> _table_status(methods, engine, state.tables, d)
      [] state.kind = "sql" ->
           [methods |-> methods, error |-> None, status |-> ProbeQuery(state, engine, d)]
      [] state.kind = "fn" ->
           [methods |-> methods, error |-> None, status |-> state.returns]
      [] OTHER ->
           [methods |-> methods, error |-> "TypeError", status |-> NoneStatus]

\* cache.py:290  if status != current_status
StatusChangedNever(cache, key, status) == key \notin DOMAIN cache
StatusChanged(cache, key, status) == status # CurrentStatus(cache, key)

\* cache.py:259-298  one call of query(); sraise: executing sql raises.
QueryCall(cache, methods, d, sql, engine, state, sraise) ==
    LET key == <<sql, engine.url>>
        st == StateStatus(methods, engine, state, d)
        call == [op |-> "query", sql |-> sql, engine |-> engine, state |-> state,
                 key |-> key, probed |-> st.error = None, status |-> st.status,
                 built |-> st.methods # methods,
                 executed |-> FALSE, reloaded |-> FALSE, error |-> st.error,
                 result |-> NoRows]
    IN  IF st.error # None
        THEN [cache |-> cache, methods |-> st.methods, ret |-> call]
        ELSE IF StatusChanged(cache, key, st.status)
        THEN IF sraise
             THEN [cache |-> FailedCall(cache, key,
                                        [data |-> NoRows, status |-> st.status]),
                   methods |-> st.methods,
                   ret |-> [call EXCEPT !.executed = TRUE, !.error = "SqlError"]]
             ELSE LET rows == read_sql(sql, engine, d)
                  IN [cache |-> StoreEntry(cache, key,
                                           [data |-> rows, status |-> st.status]),
                      methods |-> st.methods,
                      ret |-> [call EXCEPT !.executed = TRUE, !.reloaded = TRUE,
                                           !.result = rows]]
        ELSE IF key \in DOMAIN cache
        THEN [cache |-> cache, methods |-> st.methods,
              ret |-> [call EXCEPT !.result = cache[key].data]]
        ELSE \* cache.py:297  _cache[key] raises KeyError
             [cache |-> cache, methods |-> st.methods,
              ret |-> [call EXCEPT !.error = "KeyError"]]

\* the inputs of query() in this specification
Sqls == {"q1"}
TableLists == {<< <<"o">> >>, << <<"x", ".", "o">> >>, <<>>}
States == [kind : {"tables"}, tables : TableLists, returns : {NoneStatus}]
          \cup [kind : {"sql", "other"}, tables : {<<>>}, returns : {NoneStatus}]
          \cup [kind : {"fn"}, tables : {<<>>}, returns : Statuses]

\* a call of query() with a state of the set S
QueryStep(S) ==
    \E sql \in Sqls, state \in S, sraise \in BOOLEAN :
        LET r == QueryCall(_QUERY_CACHE, _STATUS_METHODS, dbstate, sql, conn, state,
                           sraise)
        IN  /\ _QUERY_CACHE' = r.cache
            /\ _STATUS_METHODS' = r.methods
            /\ ret' = r.ret
            /\ UNCHANGED <<conn, dbstate, openVars, moduleVars, procVars, concVars>>

query == QueryStep(States)

\* the table lists of the specification of table-list states: one and two
\* names, the same names in both orders, names with no, one and two dots, and
\* the lists that are not valid
WatchedLists == {<< <<"o">> >>, <<>>,
                 << <<"o">>, <<"x", ".", "o">> >>, << <<"x", ".", "o">>, <<"o">> >>,
                 << <<"y", ".", "x", ".", "o">> >>,
                 << <<>> >>, << NonString >>, << Unhashable >>}
TableStates == [kind : {"tables"}, tables : WatchedLists, returns : {NoneStatus}]

query_tables == QueryStep(TableStates)

\* The environment changes a database: its data, its activity counters, or both.
ChangeDb ==
    \E data \in 1..MaxData, act \in 1..MaxAct :
        /\ dbstate # [data |-> data, act |-> act]
        /\ dbstate' = [data |-> data, act |-> act]
        /\ ret' = NoRet
        /\ UNCHANGED <<conn, _QUERY_CACHE, _STATUS_METHODS, openVars, moduleVars, procVars, concVars>>

InitQuery ==
    /\ conn \in Engines
    /\ dbstate = [data |-> 1, act |-> 1]
    /\ _QUERY_CACHE = <<>>
    /\ _STATUS_METHODS = <<>>

NextQuery == query \/ ChangeDb
NextTables == query_tables \/ ChangeDb

\* ----------------------------------------------------- reload_module()
\* A module handle: __name__ and __file__ (None when the attribute is missing).
\* m1 was loaded from source, m2 from bytecode; sys is built in and has no
\* __file__.
NoPath == [mod |-> None, ext |-> None]
Handles == {[name |-> "m1", path |-> [mod |-> "m1", ext |-> "py"]],
            [name |-> "m2", path |-> [mod |-> "m2", ext |-> "pyc"]],
            [name |-> "sys", path |-> NoPath]}
ModPaths == {h.path : h \in {x \in Handles : x.path # NoPath}}
            \cup {[mod |-> "m2", ext |-> "py"]}
\* a module file: only its stat matters, and an edit is seen in its mtime
ModFiles == {f \in Files : f.content \in {<<>>, <<"a">>}}

\* os.path.exists(path)
exists(fs, path) == path \in DOMAIN fs /\ fs[path].exists

\* cache.py:327-328  path = path[:-1] for a .pyc path
SourcePath(path) == IF path.ext = "pyc" THEN [path EXCEPT !.ext = "py"] ELSE path

\* cache.py:322, 329  the handle has a name, a path, and its files exist
Resolvable(fs, h) ==
    /\ h.name # None
    /\ h.path # NoPath
    /\ exists(fs, h.path)
    /\ exists(fs, SourcePath(h.path))

\* cache.py:334  _MODULE_CACHE.get(name, fstat)
StoredOrNone(cache, name, fstat) == IF name \in DOMAIN cache THEN cache[name] ELSE NoneStat
StoredOr(cache, name, fstat) == IF name \in DOMAIN cache THEN cache[name] ELSE fstat

\* the outcome of a call so far: the cache, the modules reloaded and the handles
\* warned about, in order, and the error that ended the call
RECURSIVE reload_loop(_, _, _, _, _)

\* cache.py:324, 331  continue: go on with the next handle
StopAtHandle(handles, i, fs, broken, acc) == acc
NextHandle(handles, i, fs, broken, acc) == reload_loop(handles, i + 1, fs, broken, acc)

\* cache.py:323-324, 330-331  app_log.warn(...); continue: nothing else is done
\* for the handle
WarnAndForget(acc, h) ==
    [acc EXCEPT !.warned = Append(@, h),
                !.cache = [n \in DOMAIN @ \ {h.name} |-> @[n]]]
Warn(acc, h) == [acc EXCEPT !.warned = Append(@, h)]

\* cache.py:336  six.moves.reload_module(module) raises: line 337 is not reached
RaisedAfterRefresh(acc, h, fstat) ==
    [acc EXCEPT !.reloaded = Append(@, h.name), !.error = "ReloadError",
                !.cache = [n \in DOMAIN @ \cup {h.name} |->
                              IF n = h.name THEN fstat ELSE @[n]]]
Raised(acc, h, fstat) ==
    [acc EXCEPT !.reloaded = Append(@, h.name), !.error = "ReloadError"]

\* cache.py:319-337  the loop over the handles, from the i-th on; broken: the
\* source of the modules is broken and reloading one raises.
reload_loop(handles, i, fs, broken, acc) ==
    IF i > Len(handles) THEN acc
    ELSE LET h == handles[i]
             fstat == stat(fs[SourcePath(h.path)])
         IN  IF ~Resolvable(fs, h)
             THEN NextHandle(handles, i, fs, broken, Warn(acc, h))
             ELSE IF fstat # StoredOr(acc.cache, h.name, fstat)
             THEN IF broken
                  THEN Raised(acc, h, fstat)
                  ELSE NextHandle(handles, i, fs, broken,
                           [acc EXCEPT !.reloaded = Append(@, h.name),
                                       !.cache = [n \in DOMAIN @ \cup {h.name} |->
                                                     IF n = h.name THEN fstat ELSE @[n]]])
             ELSE NextHandle(handles, i, fs, broken,
                      [acc EXCEPT !.cache = [n \in DOMAIN @ \cup {h.name} |->
                                                IF n = h.name THEN fstat ELSE @[n]]])

\* cache.py:305-337  one call of reload_module(*modules)
ReloadCall(cache, fs, handles, broken) ==
    reload_loop(handles, 1, fs, broken,
                [cache |-> cache, reloaded |-> <<>>, warned |-> <<>>, error |-> None])

HandleLists == UNION {[1..n -> Handles] : n \in 1..MaxHandles}

reload_module ==
    \E handles \in HandleLists, broken \in BOOLEAN :
        LET r == ReloadCall(_MODULE_CACHE, modfiles, handles, broken)
        IN  /\ broken => r.error # None
            /\ _MODULE_CACHE' = r.cache
            /\ ret' = [op |-> "reload_module", handles |-> handles, broken |-> broken,
                       reloaded |-> r.reloaded, warned |-> r.warned, error |-> r.error]
            /\ UNCHANGED <<modfiles, openVars, queryVars, procVars, concVars>>

\* The environment edits, compiles or restores a module file.
WriteModule ==
    \E path \in ModPaths, f \in ModFiles :
        /\ f.exists
        /\ f # modfiles[path]
        /\ path.ext = "pyc" => (~modfiles[path].exists /\ f.mtime = 1)
        /\ modfiles' = [modfiles EXCEPT ![path] = f]
        /\ ret' = NoRet
        /\ UNCHANGED <<_MODULE_CACHE, openVars, queryVars, procVars, concVars>>

\* The environment removes a module file.
DeleteModule ==
    \E path \in ModPaths :
        /\ modfiles[path].exists
        /\ modfiles' = [modfiles EXCEPT ![path] = NoFile]
        /\ ret' = NoRet
        /\ UNCHANGED <<_MODULE_CACHE, openVars, queryVars, procVars, concVars>>

\* the modules are importable at the start: their files exist
InitModule ==
    /\ modfiles = [path \in ModPaths |->
                     [exists |-> TRUE, mtime |-> 1, content |-> <<"a">>]]
    /\ _MODULE_CACHE = <<>>

NextModule == reload_module \/ WriteModule \/ DeleteModule

\* ---------------------------------------------------------- Subprocess
Streams == {"stdout", "stderr"}
Newline == "\n"
Bytes == {"a", Newline}

\* cache.py:371, 385-386  buffer_size as _write uses it: 'line', or a number
\* of bytes with io.DEFAULT_BUFFER_SIZE in place of a number <= 0
LineMode == [line |-> TRUE, size |-> 0]
ResolveBufferSize(arg) ==
    IF arg.line THEN LineMode
    ELSE [line |-> FALSE, size |-> IF arg.size <= 0 THEN DefaultBufferSize ELSE arg.size]

Min(a, b) == IF a < b THEN a ELSE b

\* the bytes written to a stream and not read yet
Unread(s) == SubSeq(written[s], rpos[s] + 1, Len(written[s]))

\* stream.readline(): blocks until a line or the end of the stream is there; a
\* line ends with its newline, the last one may lack it, '' is the end
CanReadline(avail, eof) == Newline \in Range(avail) \/ eof
readline(avail) ==
    IF Newline \in Range(avail)
    THEN SubSeq(avail, 1, CHOOSE i \in 1..Len(avail) :
                             avail[i] = Newline /\ \A j \in 1..(i - 1) : avail[j] # Newline)
    ELSE avail

\* stream.read(n): a buffered stream blocks until n bytes or the end of the
\* stream are there; a raw stream returns what one read() of the pipe gives,
\* blocking only while the pipe is empty
CanRead(avail, n, eof, raw) == eof \/ Len(avail) >= (IF raw THEN 1 ELSE n)
read(avail, n) == SubSeq(avail, 1, Min(n, Len(avail)))

\* cache.py:376, 379  line mode: an empty read is the end of the stream
\* cache.py:398       chunk mode: a read shorter than buffer_size is
NeverEnd(mode, data) == FALSE
OnlyEmptyIsEnd(mode, data) == Len(data) = 0
BlankIsEnd(mode, data) == Len(data) = 0 \/ data = <<Newline>>
IsEnd(mode, data) ==
    IF mode.line THEN Len(data) = 0 ELSE Len(data) < mode.size

\* cache.py:376-378, 393-397  where _write goes after a read, and after the
\* callbacks: call the callbacks with non-empty content, then close or read on
AfterCallbacks(mode, data) == IF IsEnd(mode, data) THEN "close" ELSE "read"
AfterRead(mode, data, ncallbacks) ==
    IF Len(data) > 0 /\ ncallbacks > 0 THEN "callback" ELSE AfterCallbacks(mode, data)

\* cache.py:382, 401  break after future.set_result('')
LoopAgain == "read"
AfterSetResult == "done"

\* cache.py:378, 397  no try around callback(content): the exception ends
\* the thread's target
RaiseCaught == "read"
AfterRaise == "raised"

\* cache.py:411-416  the thread of a stream is given the future made for it
FutureOfStdout(s) == "stdout"
FutureOf(s) == s

\* cache.py:375, 391  content = stream.readline() / stream.read(buffer_size)
ReadStream(s) ==
    LET avail == Unread(s)
        data == IF buffer_size.line THEN readline(avail)
                ELSE read(avail, buffer_size.size)
    IN  /\ pc[s] = "read"
        /\ ~rclosed[s]
        /\ IF buffer_size.line THEN CanReadline(avail, wclosed[s])
           ELSE CanRead(avail, buffer_size.size, wclosed[s], rawio)
        /\ rpos' = [rpos EXCEPT ![s] = @ + Len(data)]
        /\ content' = [content EXCEPT ![s] = data]
        /\ cb' = [cb EXCEPT ![s] = 1]
        /\ pc' = [pc EXCEPT ![s] = AfterRead(buffer_size, data, callbacks[s])]
        /\ UNCHANGED <<notProcVars, buffer_size, rawio, callbacks, written, wclosed, delivered,
                       rclosed, future>>

\* cache.py:377-378, 394-397  callback(content) returns
Callback(s) ==
    /\ pc[s] = "callback"
    /\ delivered' = [delivered EXCEPT ![s][cb[s]] = Append(@, content[s])]
    /\ cb' = [cb EXCEPT ![s] = @ + 1]
    /\ pc' = [pc EXCEPT ![s] = IF cb[s] < callbacks[s] THEN "callback"
                               ELSE AfterCallbacks(buffer_size, content[s])]
    /\ UNCHANGED <<notProcVars, buffer_size, rawio, callbacks, written, wclosed, rpos, content,
                   rclosed, future>>

\* cache.py:378, 395-397  callback(content) raises: nothing catches it and the
\* thread ends
CallbackRaises(s) ==
    /\ pc[s] = "callback"
    /\ pc' = [pc EXCEPT ![s] = AfterRaise]
    /\ UNCHANGED <<notProcVars, buffer_size, rawio, callbacks, written, wclosed, rpos, content, cb,
                   delivered, rclosed, future>>

\* cache.py:380, 399  stream.close()
CloseStream(s) ==
    /\ pc[s] = "close"
    /\ rclosed' = [rclosed EXCEPT ![s] = TRUE]
    /\ pc' = [pc EXCEPT ![s] = "set_result"]
    /\ UNCHANGED <<notProcVars, buffer_size, rawio, callbacks, written, wclosed, rpos, content, cb,
                   delivered, future>>

\* cache.py:381-382, 400-401  future.set_result(''); break
SetResult(s) ==
    /\ pc[s] = "set_result"
    /\ future' = [future EXCEPT ![FutureOf(s)] = @ + 1]
    /\ pc' = [pc EXCEPT ![s] = AfterSetResult]
    /\ UNCHANGED <<notProcVars, buffer_size, rawio, callbacks, written, wclosed, rpos, content, cb,
                   delivered, rclosed>>

\* the bytes written to all streams
TotalWritten == Len(written["stdout"]) + Len(written["stderr"])

\* The child writes a byte to a stream whose read end is open.
ChildWrite(s) ==
    \E b \in Bytes :
        /\ ~wclosed[s]
        /\ ~rclosed[s]
        /\ TotalWritten < MaxOut
        /\ written' = [written EXCEPT ![s] = Append(@, b)]
        /\ UNCHANGED <<notProcVars, buffer_size, rawio, callbacks, wclosed, rpos, content, cb, pc,
                       delivered, rclosed, future>>

\* The child closes a stream, or exits.
ChildClose(s) ==
    /\ ~wclosed[s]
    /\ wclosed' = [wclosed EXCEPT ![s] = TRUE]
    /\ UNCHANGED <<notProcVars, buffer_size, rawio, callbacks, written, rpos, content, cb, pc,
                   delivered, rclosed, future>>

\* cache.py:360-418  after Subprocess(args, stream_stdout, stream_stderr,
\* buffer_size, **kwargs): the child runs and both threads are started
BufferSizeArgs == {LineMode} \cup [line : {FALSE}, size : -1..MaxBuf]
InitProc ==
    /\ buffer_size \in {ResolveBufferSize(arg) : arg \in BufferSizeArgs}
    /\ rawio \in BOOLEAN
    /\ callbacks \in [Streams -> 0..MaxCallbacks]
    /\ written = [s \in Streams |-> <<>>]
    /\ wclosed = [s \in Streams |-> FALSE]
    /\ rpos = [s \in Streams |-> 0]
    /\ content = [s \in Streams |-> <<>>]
    /\ cb = [s \in Streams |-> 1]
    /\ pc = [s \in Streams |-> "read"]
    /\ delivered = [s \in Streams |-> [i \in 1..callbacks[s] |-> <<>>]]
    /\ rclosed = [s \in Streams |-> FALSE]
    /\ future = [s \in Streams |-> 0]

\* cache.py:411-416  each stream has a thread of its own with _write as its
\* target: a thread that can take a step is scheduled in the end. The step is
\* any but the raise of a callback, which may never happen.
ReaderStep(s) == ReadStream(s) \/ Callback(s) \/ CloseStream(s) \/ SetResult(s)
FairReaders == \A s \in Streams : WF_vars(ReaderStep(s))

NextProc ==
    \E s \in Streams :
        \/ ReadStream(s)
        \/ Callback(s)
        \/ CallbackRaises(s)
        \/ CloseStream(s)
        \/ SetResult(s)
        \/ ChildWrite(s)
        \/ ChildClose(s)

\* ------------------------------------ open() and query() in two threads
\* Two threads of the application call open(), or call query(); a step of a
\* thread is a stretch of the function that reads or writes the shared cache,
\* the file system or the database once.
Threads == {"t1", "t2"}

\* the arguments the threads call with: a function, an unregistered name, two
\* keyword options; a function state, a probe query, a state of another shape
ConcCallbacks == {"fn1", "bogus"}
ConcKwargs == {"kw1", "kw2"}
ConcStates == {st \in States : st.kind # "tables"}

NoState == [kind |-> "none", tables |-> <<>>, returns |-> NoneStatus]
\* a thread that runs no call
Idle(op) ==
    IF op = "open"
    THEN [pc |-> "idle", op |-> op, arg |-> None, kw |-> None,
          key |-> <<None, <<"id", None>>>>, snap |-> <<>>, token |-> NoneStat,
          data |-> NoData, reloaded |-> FALSE, error |-> None, result |-> NoData]
    ELSE [pc |-> "idle", op |-> op, arg |-> NoState, kw |-> None,
          key |-> <<None, None>>, snap |-> <<>>, token |-> NoneStatus,
          data |-> NoRows, reloaded |-> FALSE, error |-> None, result |-> NoRows]

\* cache.py:173, 279  _cache.get(key, ...): what the cache holds for the key now
Snapshot(cache, key) == [k \in DOMAIN cache \cap {key} |-> cache[k]]

\* cache.py:171-173  key = (path, ...); cached = _cache.get(key, None)
OpenGetWith(t, Cbs, Kws) ==
    \E path \in Paths, callback \in Cbs, kw \in Kws :
        LET key == KeyOf(path, callback)
        IN  /\ threads[t].pc = "idle" /\ threads[t].op = "open"
            /\ threads' = [threads EXCEPT ![t] =
                   [@ EXCEPT !.pc = "stat", !.arg = callback, !.kw = kw, !.key = key,
                             !.snap = Snapshot(_OPEN_CACHE, key)]]
            /\ UNCHANGED <<openVars, queryVars, moduleVars, procVars, lastStore, ret>>

OpenGet(t) == OpenGetWith(t, ConcCallbacks, ConcKwargs)
\* the calls made while the file changes: one function, one keyword option
OpenGetOne(t) == OpenGetWith(t, {"fn1"}, {"kw1"})

\* cache.py:174-176  fstat = stat(path); the test of the entry read before
OpenStat(t) ==
    LET th == threads[t]
        fstat == stat(files[th.key[1]])
        miss == IsMiss(th.snap, th.key, fstat)
    IN  /\ th.pc = "stat" /\ th.op = "open"
        /\ threads' = [threads EXCEPT ![t] =
               [@ EXCEPT !.pc = IF miss THEN "load" ELSE "result",
                         !.token = fstat, !.reloaded = miss]]
        /\ UNCHANGED <<openVars, queryVars, moduleVars, procVars, lastStore, ret>>

\* cache.py:177-188  data = callback(path, **kwargs), or raise TypeError
OpenLoad(t) ==
    \E lraise \in BOOLEAN :
        LET th == threads[t]
            path == th.key[1]
            error == IF ~CanLoad(th.arg) THEN "TypeError"
                     ELSE IF LoaderRaises(th.arg, files[path], lraise) THEN "LoaderError"
                     ELSE None
        IN  /\ th.pc = "load" /\ th.op = "open"
            /\ lraise => CanLoad(th.arg)
            /\ threads' = [threads EXCEPT ![t] =
                   IF error # None THEN [@ EXCEPT !.pc = "return", !.error = error]
                   ELSE [@ EXCEPT !.pc = "store",
                                  !.data = Transformed(Loaded(th.arg, path, files[path],
                                                              th.kw), None)]]
            /\ UNCHANGED <<openVars, queryVars, moduleVars, procVars, lastStore, ret>>

\* cache.py:174, 189  the entry stored: the data of line 177-188 with the
\* fstat of line 174, read before the loader ran
OpenEntryStatAtStore(th, fs) == [data |-> th.data, stat |-> stat(fs[th.key[1]])]
OpenEntry(th, fs) == [data |-> th.data, stat |-> th.token]

\* cache.py:189  _cache[key] = {'data': data, 'stat': fstat}
OpenStore(t) ==
    LET th == threads[t]
        entry == OpenEntry(th, files)
    IN  /\ th.pc = "store" /\ th.op = "open"
        /\ _OPEN_CACHE' = StoreEntry(_OPEN_CACHE, th.key, entry)
        /\ lastStore' = [k \in DOMAIN lastStore \cup {th.key} |->
                           IF k = th.key THEN [by |-> t, entry |-> entry]
                           ELSE lastStore[k]]
        /\ threads' = [threads EXCEPT ![t].pc = "result"]
        /\ UNCHANGED <<files, lastLoad, queryVars, moduleVars, procVars, ret>>

\* cache.py:191  result = _cache[key]['data']
OpenResult(t) ==
    LET th == threads[t]
    IN  /\ th.pc = "result" /\ th.op = "open"
        /\ threads' = [threads EXCEPT ![t] =
               [@ EXCEPT !.pc = "return", !.result = _OPEN_CACHE[th.key].data]]
        /\ UNCHANGED <<openVars, queryVars, moduleVars, procVars, lastStore, ret>>

\* cache.py:278-279  key = (sql, engine.url); current_status = _cache.get(key, {})...
QueryGet(t) ==
    \E sql \in Sqls, state \in ConcStates :
        LET key == <<sql, conn.url>>
        IN  /\ threads[t].pc = "idle" /\ threads[t].op = "query"
            /\ threads' = [threads EXCEPT ![t] =
                   [@ EXCEPT !.pc = "state", !.arg = state, !.key = key,
                             !.snap = Snapshot(_QUERY_CACHE, key)]]
            /\ UNCHANGED <<openVars, queryVars, moduleVars, procVars, lastStore, ret>>

\* cache.py:280-290  status from the state, or raise TypeError; the test of
\* the status read before
QueryState(t) ==
    LET th == threads[t]
        st == StateStatus(_STATUS_METHODS, conn, th.arg, dbstate)
        changed == StatusChanged(th.snap, th.key, st.status)
    IN  /\ th.pc = "state" /\ th.op = "query"
        /\ threads' = [threads EXCEPT ![t] =
               IF st.error # None THEN [@ EXCEPT !.pc = "return", !.error = st.error]
               ELSE [@ EXCEPT !.pc = IF changed THEN "exec" ELSE "result",
                              !.token = st.status]]
        /\ UNCHANGED <<openVars, queryVars, moduleVars, procVars, lastStore, ret>>

\* cache.py:292  pd.read_sql(sql, engine, **kwargs)
QueryExec(t) ==
    \E sraise \in BOOLEAN :
        LET th == threads[t]
        IN  /\ th.pc = "exec" /\ th.op = "query"
            /\ threads' = [threads EXCEPT ![t] =
                   IF sraise THEN [@ EXCEPT !.pc = "return", !.error = "SqlError"]
                   ELSE [@ EXCEPT !.pc = "store",
                                  !.data = read_sql(th.key[1], conn, dbstate)]]
            /\ UNCHANGED <<openVars, queryVars, moduleVars, procVars, lastStore, ret>>

\* cache.py:291-295  _cache[key] = {'data': ..., 'status': status}; reloaded = True
QueryStore(t) ==
    LET th == threads[t]
        entry == [data |-> th.data, status |-> th.token]
    IN  /\ th.pc = "store" /\ th.op = "query"
        /\ _QUERY_CACHE' = StoreEntry(_QUERY_CACHE, th.key, entry)
        /\ lastStore' = [k \in DOMAIN lastStore \cup {th.key} |->
                           IF k = th.key THEN [by |-> t, entry |-> entry]
                           ELSE lastStore[k]]
        /\ threads' = [threads EXCEPT ![t] = [@ EXCEPT !.pc = "result", !.reloaded = TRUE]]
        /\ UNCHANGED <<conn, dbstate, _STATUS_METHODS, openVars, moduleVars, procVars, ret>>

\* cache.py:297  result = _cache[key]['data']
QueryResult(t) ==
    LET th == threads[t]
    IN  /\ th.pc = "result" /\ th.op = "query"
        /\ threads' = [threads EXCEPT ![t] =
               IF th.key \in DOMAIN _QUERY_CACHE
               THEN [@ EXCEPT !.pc = "return", !.result = _QUERY_CACHE[th.key].data]
               ELSE [@ EXCEPT !.pc = "return", !.error = "KeyError"]]
        /\ UNCHANGED <<openVars, queryVars, moduleVars, procVars, lastStore, ret>>

\* cache.py:192, 298  return, or the exception leaves the function
Return(t) ==
    /\ threads[t].pc = "return"
    /\ threads' = [threads EXCEPT ![t] = Idle(threads[t].op)]
    /\ UNCHANGED <<openVars, queryVars, moduleVars, procVars, lastStore, ret>>

\* both threads run the same function
InitConc ==
    /\ \E op \in {"open", "query"} : threads = [t \in Threads |-> Idle(op)]
    /\ lastStore = <<>>

\* The environment changes a file while the threads run, and every change
\* gives the file a token it never had: (mtime, size) grows in the
\* lexicographic order, so no token comes back.
FreshWrite ==
    \E path \in Paths, f \in Files :
        LET old == stat(files[path])
            new == stat(f)
        IN  /\ f.exists
            /\ new[1] > old[1] \/ (new[1] = old[1] /\ new[2] > old[2])
            /\ files' = [files EXCEPT ![path] = f]
            /\ ret' = NoRet
            /\ UNCHANGED <<_OPEN_CACHE, lastLoad, queryVars, moduleVars, procVars,
                           concVars>>

\* the calls of open() of the threads
OpenThreads ==
    \E t \in Threads :
          \/ OpenGetOne(t) \/ OpenStat(t) \/ OpenLoad(t) \/ OpenStore(t)
          \/ OpenResult(t) \/ Return(t)

NextFresh == OpenThreads \/ FreshWrite

NextConc ==
    \E t \in Threads :
          \/ OpenGet(t) \/ OpenStat(t) \/ OpenLoad(t) \/ OpenStore(t) \/ OpenResult(t)
          \/ QueryGet(t) \/ QueryState(t) \/ QueryExec(t) \/ QueryStore(t)
          \/ QueryResult(t)
          \/ Return(t)

\* ------------------------------------------------------- claims: open()
\* the step is a call open(path, callback, ...) on a key with a loaded entry
OpenedBefore == ret'.op = "open" /\ ret'.key \in DOMAIN lastLoad

\* C1: once open(path, loader) has succeeded, a later open(path, loader) made
\* while stat(path) still equals the token of that load returns the value loaded
\* then, with reloaded=False, calls neither the loader nor the transform, and
\* leaves the cache as it is.
C1_Idempotent ==
    [][ (OpenedBefore /\ lastLoad[ret'.key].stat = stat(files[ret'.path]))
        => /\ ret'.error = None
           /\ ret'.reloaded = FALSE
           /\ ret'.loaded = FALSE
           /\ ret'.transformed = FALSE
           /\ ret'.result = lastLoad[ret'.key].data
           /\ _OPEN_CACHE' = _OPEN_CACHE ]_vars

\* C1 witness: a call with a transform was answered from the cache, and the file
\* exists.
C1_Witness ==
    /\ ret.op = "open" /\ ret.error = None /\ ~ret.reloaded
    /\ ret.transform = "tf"
    /\ files[ret.path].exists

BadCallback(callback) ==
    \/ is_str(callback) /\ callback \notin _CALLBACKS
    \/ ~callable(callback) /\ ~is_str(callback)

\* C10: open() with an unregistered loader name, or with a loader that is
\* neither callable nor a string, raises TypeError on every such call, stores no
\* entry for the key and leaves every entry as it was.
C10_BadLoader ==
    [][ (ret'.op = "open" /\ BadCallback(ret'.callback))
        => /\ ret'.error = "TypeError"
           /\ ret'.loaded = FALSE
           /\ ret'.key \notin DOMAIN _OPEN_CACHE'
           /\ _OPEN_CACHE' = _OPEN_CACHE ]_vars

\* C10 witness: the call failed while the cache holds entries of other loaders.
C10_Witness ==
    /\ ret.op = "open" /\ ret.error = "TypeError"
    /\ ret.callback = "bogus"
    /\ Cardinality(DOMAIN _OPEN_CACHE) = 2

\* ------------------------------------------------------ claims: query()
\* the step is a call query(sql, engine, state) whose state yielded a status
Queried == ret'.op = "query" /\ ret'.probed

\* C3: for a key (sql, engine.url) that has an entry, query() executes sql
\* exactly when the status computed from the state on this call differs from
\* the stored status, and then (sql not raising) returns the fresh rows with
\* reloaded=True and stores {rows, status}; otherwise it returns the stored rows
\* with reloaded=False and leaves the cache as it is.
C3_QueryDecision ==
    [][ (Queried /\ ret'.key \in DOMAIN _QUERY_CACHE)
        => LET stored == _QUERY_CACHE[ret'.key]
           IN /\ ret'.state.kind = "fn" => ret'.status = ret'.state.returns
              /\ ret'.executed <=> ret'.status # stored.status
              /\ ret'.error \in {None, "SqlError"}
              /\ ret'.error = None => (ret'.reloaded <=> ret'.executed)
              /\ ~ret'.executed =>
                    /\ ret'.error = None
                    /\ ret'.result = stored.data
                    /\ _QUERY_CACHE' = _QUERY_CACHE
              /\ (ret'.executed /\ ret'.error = None) =>
                    /\ ret'.result = read_sql(ret'.sql, ret'.engine, dbstate)
                    /\ _QUERY_CACHE'[ret'.key] =
                          [data |-> ret'.result, status |-> ret'.status] ]_vars

\* C3 witness: a table-list call was answered from the cache although the data
\* of the database has changed since.
C3_Witness ==
    /\ ret.op = "query" /\ ret.error = None /\ ~ret.executed
    /\ ret.state.kind = "tables"
    /\ ret.result.data # dbstate.data

\* C4: for a key that has no entry, query() executes sql, stores {rows, status}
\* and returns the rows with reloaded=True whatever status the state yields
\* (sql not raising).
C4_NoEntryExecutes ==
    [][ (Queried /\ ret'.key \notin DOMAIN _QUERY_CACHE /\ ret'.error # "SqlError")
        => /\ ret'.executed
           /\ ret'.reloaded
           /\ ret'.error = None
           /\ ret'.key \in DOMAIN _QUERY_CACHE'
           /\ _QUERY_CACHE'[ret'.key] = [data |-> ret'.result, status |-> ret'.status]
      ]_vars

\* C11: query() called with a state that is not a table list, a probe query
\* or a callable raises TypeError (the spec's InvalidStateSpec) in that call,
\* without executing sql, without running a probe, and leaving the query
\* cache and the memoized probes as they were.
C11_InvalidState ==
    [][ (ret'.op = "query" /\ ret'.state.kind \notin {"tables", "sql", "fn"})
        => /\ ret'.error = "TypeError"
           /\ ~ret'.executed
           /\ ~ret'.probed
           /\ _QUERY_CACHE' = _QUERY_CACHE
           /\ _STATUS_METHODS' = _STATUS_METHODS ]_vars

\* C11 witness: a call with a state of another shape has raised TypeError
\* while the cache held an entry for its key and a probe was memoized.
C11_Witness ==
    /\ ret.op = "query" /\ ret.state.kind = "other" /\ ret.error = "TypeError"
    /\ ret.key \in DOMAIN _QUERY_CACHE
    /\ _STATUS_METHODS # <<>>

\* the step is a call query(sql, engine, state) with a table list whose probe
\* is not memoized yet
Building ==
    /\ ret'.op = "query" /\ ret'.state.kind = "tables"
    /\ \A k \in DOMAIN _STATUS_METHODS : k # <<ret'.engine.url, ret'.state.tables>>

\* a table list that is empty or has an empty or non-string name
BadTables(tables) ==
    \/ Len(tables) = 0
    \/ \E i \in 1..Len(tables) :
          tables[i] = <<>> \/ tables[i] \in {NonString, Unhashable}

\* C12: building the probe raises ValueError (the spec's InvalidTableList) for
\* a table list that is empty or has an empty or non-string name; for a good
\* list it raises the KeyError of an unknown dialect (UnsupportedDialect) or
\* the KeyError of an in-memory sqlite database (UnsupportedDatabase). In each
\* case no probe is memoized, sql is not executed, the query cache is as it
\* was, and the same call made again fails the same way.
C12_BuildErrors ==
    [][ Building =>
          LET tables == ret'.state.tables
              engine == ret'.engine
              expected ==
                 IF BadTables(tables) THEN "ValueError"
                 ELSE IF engine.dialect \notin {"mysql", "mssql", "postgresql", "sqlite"}
                 THEN "KeyError: dialect"
                 ELSE IF engine.dialect = "sqlite" /\ engine.database = <<>>
                 THEN "KeyError: memory sqlite"
                 ELSE None
              again == QueryCall(_QUERY_CACHE', _STATUS_METHODS', dbstate', ret'.sql,
                                 engine, ret'.state, FALSE)
          IN  expected # None =>
                /\ ret'.error = expected
                /\ _STATUS_METHODS' = _STATUS_METHODS
                /\ ~ret'.executed
                /\ _QUERY_CACHE' = _QUERY_CACHE
                /\ again.ret.error = ret'.error ]_vars

\* the two lists hold the same names, in any order
SameNames(t1, t2) == t1 \in Orders(t2)

\* C17 as stated: two table lists of one connection that hold the same names
\* in another order share one memoized probe, so no two probes of a
\* connection are memoized for the same names.
C17_OneProbePerNames ==
    \A k1, k2 \in DOMAIN _STATUS_METHODS :
        (k1[1] = k2[1] /\ SameNames(k1[2], k2[2])) => k1 = k2

\* C17, amended: the probe of a table list is memoized under (engine.url, the
\* names in the order given): a call that builds a probe adds exactly that key,
\* with the probe built from the names in that order, whatever other orders of
\* the same names are memoized already.
C17_KeyInOrder ==
    [][ (ret'.op = "query" /\ ret'.state.kind = "tables" /\ ret'.built)
        => LET key == <<ret'.engine.url, ret'.state.tables>>
           IN  /\ key \notin DOMAIN _STATUS_METHODS
               /\ DOMAIN _STATUS_METHODS' = DOMAIN _STATUS_METHODS \cup {key}
               /\ _STATUS_METHODS'[key] = BuildProbe(ret'.engine, ret'.state.tables).probe
               /\ \A k \in DOMAIN _STATUS_METHODS :
                     _STATUS_METHODS'[k] = _STATUS_METHODS[k] ]_vars

\* C17 witness: a call has just built a probe for a list whose names, in
\* another order, had a probe already.
C17_Witness ==
    /\ ret.op = "query" /\ ret.state.kind = "tables" /\ ret.built
    /\ \E k \in DOMAIN _STATUS_METHODS :
          /\ k[1] = ret.engine.url
          /\ k[2] # ret.state.tables
          /\ SameNames(k[2], ret.state.tables)

\* C18: the probe of a key is checked and built only by the first call that
\* succeeds in building it; every later call for the key leaves the memoized
\* probes as they are and returns what that probe reads from the database as
\* it is at this call.
C18_ProbeMemoized ==
    [][ (ret'.op = "query" /\ ret'.state.kind = "tables" /\ hashable(ret'.state.tables))
        => LET key == <<ret'.engine.url, ret'.state.tables>>
               fresh(probe) ==
                  IF probe.kind = "stat" THEN StatProbe(probe.path, dbstate)
                  ELSE SqlProbe(ret'.engine, probe.where, dbstate)
           IN  /\ ret'.built <=> (key \notin DOMAIN _STATUS_METHODS /\ ret'.probed)
               /\ ~ret'.built => _STATUS_METHODS' = _STATUS_METHODS
               /\ key \in DOMAIN _STATUS_METHODS =>
                     /\ ret'.probed
                     /\ ret'.status = fresh(_STATUS_METHODS[key])
               /\ ret'.built => ret'.status = fresh(_STATUS_METHODS'[key]) ]_vars

\* C18 witness: a call that did not build the probe got a status other than
\* the stored one, and executed sql.
C18_Witness ==
    /\ ret.op = "query" /\ ret.state.kind = "tables"
    /\ ~ret.built /\ ret.reloaded
    /\ ret.status.v = <<dbstate.act>> /\ dbstate.act # 1

\* the text before and after the last dot of a name
LastDot(name) == CHOOSE i \in 1..Len(name) :
                    name[i] = Dot /\ \A k \in (i + 1)..Len(name) : name[k] # Dot
BeforeLastDot(name) == SubSeq(name, 1, LastDot(name) - 1)
AfterLastDot(name) == SubSeq(name, LastDot(name) + 1, Len(name))

\* C20: for a table list of non-empty strings on a dialect with a catalog,
\* building the probe succeeds, and for every name with one or more dots the
\* (database, table) pair of the probe statement is the text before the last
\* dot and the text after it.
C20_LastDotSplits ==
    [][ (Building /\ ~BadTables(ret'.state.tables)
         /\ ret'.engine.dialect \in {"mysql", "mssql", "postgresql"})
        => LET tables == ret'.state.tables
               key == <<ret'.engine.url, tables>>
           IN  /\ ret'.built
               /\ \A i \in 1..Len(tables) :
                     Dot \in Range(tables[i]) =>
                        /\ _STATUS_METHODS'[key].where[i].db = BeforeLastDot(tables[i])
                        /\ _STATUS_METHODS'[key].where[i].table = AfterLastDot(tables[i])
      ]_vars

\* the step is a call that built the probe of a table list with a bare name
\* on a dialect that has a catalog
BuiltWithBareName ==
    /\ ret'.op = "query" /\ ret'.state.kind = "tables" /\ ret'.built
    /\ ret'.engine.dialect \in {"mysql", "mssql", "postgresql"}
    /\ \E i \in 1..Len(ret'.state.tables) : Dot \notin Range(ret'.state.tables[i])

\* C21 as stated: on every dialect with a catalog, a bare name of a table list
\* is paired in the probe statement with the database of the connection.
C21_BareUsesDatabase ==
    [][ BuiltWithBareName =>
          LET tables == ret'.state.tables
              probe == _STATUS_METHODS'[<<ret'.engine.url, tables>>]
          IN  \A i \in 1..Len(tables) :
                 Dot \notin Range(tables[i]) =>
                    /\ probe.where[i].table = tables[i]
                    /\ probe.where[i].db = ret'.engine.database ]_vars

\* C21, amended: a bare name is paired with the database of the connection
\* on mysql and mssql, and with the schema 'public' on postgresql.
C21_BareUsesDefault ==
    [][ BuiltWithBareName =>
          LET tables == ret'.state.tables
              probe == _STATUS_METHODS'[<<ret'.engine.url, tables>>]
          IN  \A i \in 1..Len(tables) :
                 Dot \notin Range(tables[i]) =>
                    /\ probe.where[i].table = tables[i]
                    /\ probe.where[i].db =
                          IF ret'.engine.dialect = "postgresql"
                          THEN <<"p", "u", "b", "l", "i", "c">>
                          ELSE ret'.engine.database ]_vars

\* C21 witness: on postgresql a probe was built that pairs the bare name with
\* 'public', which is not the database of the connection.
C21_Witness ==
    /\ ret.op = "query" /\ ret.state.kind = "tables" /\ ret.built
    /\ ret.engine.dialect = "postgresql"
    /\ ret.state.tables[1] = <<"o">>
    /\ LET probe == _STATUS_METHODS[<<ret.engine.url, ret.state.tables>>]
       IN  /\ probe.where[1].db = <<"p", "u", "b", "l", "i", "c">>
           /\ probe.where[1].db # ret.engine.database

\* ---------------------------------------------- claims: reload_module()
\* how many times name occurs in a sequence of names
Count(name, seq) == Cardinality({i \in 1..Len(seq) : seq[i] = name})

\* the step is a call of reload_module() and h is a handle it was given that resolves
Watched(h) ==
    /\ ret'.op = "reload_module"
    /\ h \in Range(ret'.handles)
    /\ Resolvable(modfiles, h)

\* C8: the first reload_module() that observes a module does not reload it and
\* records its current token; a later call reloads it exactly once when its
\* current token differs from the stored one and not at all when they are equal;
\* in both cases the stored token is the current token when the call returns.
C8_ReloadBaseline ==
    [][ \A h \in Handles : Watched(h) =>
          LET cur == stat(modfiles[SourcePath(h.path)])
              due == IF h.name \in DOMAIN _MODULE_CACHE /\ _MODULE_CACHE[h.name] # cur
                     THEN 1 ELSE 0
          IN  /\ Count(h.name, ret'.reloaded) <= due
              /\ ret'.error = None =>
                    /\ Count(h.name, ret'.reloaded) = due
                    /\ h.name \in DOMAIN _MODULE_CACHE'
                    /\ _MODULE_CACHE'[h.name] = cur ]_vars

\* C8 witness: a call that named a changed module twice reloaded it once.
C8_Witness ==
    /\ ret.op = "reload_module" /\ ret.error = None
    /\ Len(ret.handles) = 2 /\ ret.handles[1] = ret.handles[2]
    /\ ret.reloaded = <<ret.handles[1].name>>

\* the handles of a list that resolve, in order
RECURSIVE ResolvableOf(_, _)
ResolvableOf(fs, handles) ==
    IF handles = <<>> THEN <<>>
    ELSE IF Resolvable(fs, Head(handles))
         THEN <<Head(handles)>> \o ResolvableOf(fs, Tail(handles))
         ELSE ResolvableOf(fs, Tail(handles))

RECURSIVE UnresolvableOf(_, _)
UnresolvableOf(fs, handles) ==
    IF handles = <<>> THEN <<>>
    ELSE IF ~Resolvable(fs, Head(handles))
         THEN <<Head(handles)>> \o UnresolvableOf(fs, Tail(handles))
         ELSE UnresolvableOf(fs, Tail(handles))

\* C9: when reload_module() is given several handles and some of them do not
\* resolve, each of those is warned about (unless a reload raises first), the
\* call does not raise because of them, and the other handles are processed
\* exactly as in a call without them: the same reloads, the same error if a
\* reload raises, the same cache.
C9_SkipUnresolvable ==
    [][ (ret'.op = "reload_module" /\ Len(ret'.handles) > 1
         /\ \E i \in 1..Len(ret'.handles) : ~Resolvable(modfiles, ret'.handles[i]))
        => LET without == ReloadCall(_MODULE_CACHE, modfiles,
                                     ResolvableOf(modfiles, ret'.handles), ret'.broken)
           IN  /\ ret'.reloaded = without.reloaded
               /\ ret'.error = without.error
               /\ _MODULE_CACHE' = without.cache
               /\ without.warned = <<>>
               /\ ret'.error = None =>
                    ret'.warned = UnresolvableOf(modfiles, ret'.handles) ]_vars

\* C9 witness: the first handle did not resolve, and the second one was
\* reloaded in the same call.
C9_Witness ==
    /\ ret.op = "reload_module" /\ ret.error = None
    /\ Len(ret.handles) = 2
    /\ ret.warned = <<ret.handles[1]>>
    /\ ret.reloaded = <<ret.handles[2].name>>

\* C27: a call of reload_module() leaves _MODULE_CACHE as it was for the
\* module of every handle that does not resolve: no token is recorded when
\* there was none, and a stored token stays as it is. So when the file is
\* back with another token, a call for the handle reloads the module.
C27_UnresolvedUntouched ==
    [][ ret'.op = "reload_module" =>
          \A i \in 1..Len(ret'.handles) :
             LET h == ret'.handles[i]
             IN  ~Resolvable(modfiles, h) =>
                   /\ h.name \in DOMAIN _MODULE_CACHE' <=> h.name \in DOMAIN _MODULE_CACHE
                   /\ h.name \in DOMAIN _MODULE_CACHE =>
                         /\ _MODULE_CACHE'[h.name] = _MODULE_CACHE[h.name]
                         /\ \A f \in ModFiles :
                               (f.exists /\ stat(f) # _MODULE_CACHE[h.name]) =>
                                  LET fs == [p \in ModPaths |->
                                               IF p.mod = h.path.mod THEN f
                                               ELSE modfiles[p]]
                                  IN  ReloadCall(_MODULE_CACHE', fs, <<h>>,
                                                 FALSE).reloaded = <<h.name>> ]_vars

\* C27 witness: the call warned about a handle with a source path whose
\* file is missing, for a module that has a stored token.
C27_Witness ==
    /\ ret.op = "reload_module" /\ ret.error = None
    /\ ret.warned # <<>>
    /\ \E i \in 1..Len(ret.warned) :
          /\ ret.warned[i].name \in DOMAIN _MODULE_CACHE
          /\ ret.warned[i].path # NoPath
          /\ _MODULE_CACHE[ret.warned[i].name] # stat(modfiles[SourcePath(ret.warned[i].path)])

\* C28: when the reload of a module raises, the call of reload_module() ends
\* with that error; the stored token of the module is as it was before the
\* call, the handles after it are not processed (no warning, no reload, no
\* token for them), and a call for the module made next, the file as it is,
\* reloads it again.
C28_ReloadRaises ==
    [][ (ret'.op = "reload_module" /\ ret'.error # None) =>
          \E i \in 1..Len(ret'.handles) :
             LET h == ret'.handles[i]
                 before == ReloadCall(_MODULE_CACHE, modfiles,
                                      SubSeq(ret'.handles, 1, i - 1), FALSE)
             IN  /\ Resolvable(modfiles, h)
                 /\ ret'.error = "ReloadError"
                 /\ ret'.reloaded = Append(before.reloaded, h.name)
                 /\ ret'.warned = before.warned
                 /\ _MODULE_CACHE' = before.cache
                 /\ h.name \in DOMAIN _MODULE_CACHE
                 /\ _MODULE_CACHE'[h.name] = _MODULE_CACHE[h.name]
                 /\ _MODULE_CACHE'[h.name] # stat(modfiles[SourcePath(h.path)])
                 /\ ReloadCall(_MODULE_CACHE', modfiles, <<h>>, TRUE).reloaded
                       = <<h.name>> ]_vars

\* C28 witness: the reload of the second handle raised after the token of
\* the first handle was recorded.
C28_Witness ==
    /\ ret.op = "reload_module" /\ ret.error = "ReloadError"
    /\ Len(ret.handles) = 2
    /\ ret.handles[1].name # ret.handles[2].name
    /\ ret.reloaded = <<ret.handles[2].name>>
    /\ ret.handles[1].name \in DOMAIN _MODULE_CACHE

\* ------------------------------------------------- claims: Subprocess
\* the lines of a byte sequence: each ends with its newline, the last may not
RECURSIVE SplitLines(_)
SplitLines(w) ==
    IF w = <<>> THEN <<>>
    ELSE IF \E i \in 1..Len(w) : w[i] = Newline
    THEN LET i == CHOOSE j \in 1..Len(w) :
                     w[j] = Newline /\ \A k \in 1..(j - 1) : w[k] # Newline
         IN  <<SubSeq(w, 1, i)>> \o SplitLines(SubSeq(w, i + 1, Len(w)))
    ELSE <<w>>

\* the concatenation of a sequence of chunks
RECURSIVE Flatten(_)
Flatten(chunks) ==
    IF chunks = <<>> THEN <<>> ELSE Head(chunks) \o Flatten(Tail(chunks))

IsPrefix(a, b) == Len(a) <= Len(b) /\ a = SubSeq(b, 1, Len(a))

\* C5: in line mode every callback of a stream is called with the lines the
\* child wrote, in the order written and with nothing else; the stream's future
\* is resolved only when the child has closed the stream and every callback
\* has been called with every line, once each.
C5_LineFidelity ==
    buffer_size.line =>
        \A s \in Streams : \A i \in 1..callbacks[s] :
            /\ IsPrefix(delivered[s][i], SplitLines(written[s]))
            /\ future[s] > 0 =>
                  /\ wclosed[s]
                  /\ delivered[s][i] = SplitLines(written[s])

\* C5 witness: the child wrote two lines to stdout and closed it, both
\* callbacks got both, and the future is resolved.
C5_Witness ==
    /\ buffer_size.line
    /\ callbacks["stdout"] = 2
    /\ future["stdout"] = 1
    /\ Len(SplitLines(written["stdout"])) = 2
    /\ delivered["stdout"][2] = SplitLines(written["stdout"])

\* C6: in line mode and in chunk mode, whenever both futures returned by
\* wait_for_exit() are resolved, every callback of each stream has been called
\* with all that the child wrote to that stream.
C6_AllDelivered ==
    (future["stdout"] > 0 /\ future["stderr"] > 0) =>
        \A s \in Streams : \A i \in 1..callbacks[s] :
            Flatten(delivered[s][i]) = written[s]

\* C7: a stream's future is resolved at most once, only by the reader after
\* it has taken a read for the end of the stream and closed the stream, and
\* once it is resolved the reader reads and delivers nothing more.
C7_ResolveOnce ==
    [][ \A s \in Streams :
          /\ future'[s] <= 1
          /\ future'[s] > 0 => (rclosed'[s] /\ pc'[s] = "done")
          /\ future'[s] # future[s] =>
                /\ pc[s] = "set_result"
                /\ rclosed[s]
                /\ IF buffer_size.line THEN content[s] = <<>>
                   ELSE Len(content[s]) < buffer_size.size
          /\ future[s] > 0 =>
                (delivered'[s] = delivered[s] /\ rpos'[s] = rpos[s]) ]_vars

\* C7 witness: in chunk mode both futures are resolved after data was delivered.
C7_Witness ==
    /\ ~buffer_size.line
    /\ \A s \in Streams :
          future[s] = 1 /\ callbacks[s] > 0 /\ delivered[s][1] # <<>>

\* the other stream
Other(s) == CHOOSE t \in Streams : t # s

\* C14: a process has exactly two readers, one for stdout and one for stderr.
\* A reader that can go on (it is about to call a callback, close or resolve,
\* or it reads and its stream is at its end) can do so whatever the state of
\* the other stream and reader; its steps change nothing of the other reader,
\* and the future it resolves is its own.
C14_Independent ==
    /\ [](/\ DOMAIN pc = {"stdout", "stderr"}
          /\ \A s \in Streams :
                /\ pc[s] = "callback" => ENABLED Callback(s)
                /\ pc[s] = "close" => ENABLED CloseStream(s)
                /\ pc[s] = "set_result" => ENABLED SetResult(s)
                /\ (pc[s] = "read" /\ wclosed[s]) => ENABLED ReadStream(s))
    /\ [][ \A s \in Streams :
             LET t == Other(s)
             IN  (pc'[s] # pc[s] \/ rpos'[s] # rpos[s] \/ cb'[s] # cb[s]) =>
                    /\ pc'[t] = pc[t] /\ rpos'[t] = rpos[t] /\ cb'[t] = cb[t]
                    /\ content'[t] = content[t] /\ delivered'[t] = delivered[t]
                    /\ rclosed'[t] = rclosed[t] /\ future'[t] = future[t]
                    /\ written' = written /\ wclosed' = wclosed
                    /\ (pc[s] = "set_result" /\ pc'[s] = "done")
                          => future'[s] = future[s] + 1 ]_vars

\* C14 witness: the reader of stdout has resolved its future; the reader of
\* stderr has stopped on a callback that raised, and stderr is still open.
C14_Witness ==
    /\ future["stdout"] = 1 /\ rclosed["stdout"]
    /\ pc["stderr"] = "raised" /\ ~wclosed["stderr"] /\ future["stderr"] = 0

\* C15: when a callback raises, the reader of that stream stops there: the
\* callbacks before it got the item and the ones after it did not, and from
\* then on the reader reads nothing, delivers nothing, does not close the
\* stream and does not resolve its future.
C15_SinkFailure ==
    /\ [](\A s \in Streams :
            pc[s] = "raised" =>
               /\ future[s] = 0 /\ ~rclosed[s]
               /\ \A i \in 1..callbacks[s], j \in 1..callbacks[s] :
                     /\ (i < cb[s] /\ j >= cb[s]) =>
                           delivered[s][i] = Append(delivered[s][j], content[s])
                     /\ (i >= cb[s] /\ j >= cb[s]) => delivered[s][i] = delivered[s][j])
    /\ [][ \A s \in Streams :
             /\ (pc[s] = "callback" /\ pc'[s] # "callback"
                 /\ delivered'[s] = delivered[s]) => pc'[s] = "raised"
             /\ pc[s] = "raised" =>
                   /\ pc'[s] = "raised" /\ rpos'[s] = rpos[s]
                   /\ delivered'[s] = delivered[s]
                   /\ rclosed'[s] = rclosed[s] /\ future'[s] = future[s] ]_vars

\* C15 witness: the second of two callbacks raised on the second item, with
\* more of the stream still unread.
C15_Witness ==
    \E s \in Streams :
        /\ pc[s] = "raised" /\ cb[s] = 2 /\ callbacks[s] = 2
        /\ Len(delivered[s][1]) = 2 /\ Len(delivered[s][2]) = 1
        /\ Unread(s) # <<>>

\* C19: in chunk mode with N = buffer_size (the default size for a number
\* <= 0) the reader delivers only non-empty chunks, in the order read, to
\* every callback; all chunks but the last have N bytes; the first read of
\* fewer than N bytes (none included) is delivered if it is not empty, and
\* then the reader closes the stream, resolves the future and reads no more.
C19_ChunkMode ==
    /\ [](~buffer_size.line =>
           /\ buffer_size.size >= 1
           /\ \A s \in Streams :
                 /\ \A i \in 1..callbacks[s] :
                       LET chunks == delivered[s][i]
                       IN  /\ IsPrefix(Flatten(chunks), written[s])
                           /\ \A k \in 1..Len(chunks) :
                                 /\ Len(chunks[k]) >= 1
                                 /\ k < Len(chunks) => Len(chunks[k]) = buffer_size.size
                 /\ pc[s] \in {"read", "close", "set_result", "done"} =>
                       \A i \in 1..callbacks[s] :
                           Flatten(delivered[s][i]) = SubSeq(written[s], 1, rpos[s])
                 /\ pc[s] = "read" => (rpos[s] = 0 \/ Len(content[s]) = buffer_size.size)
                 /\ pc[s] \in {"close", "set_result", "done"} =>
                       Len(content[s]) < buffer_size.size
                 /\ pc[s] = "done" <=> future[s] = 1)
    /\ [][ ~buffer_size.line =>
             \A s \in Streams :
                /\ rpos'[s] # rpos[s] =>
                      /\ pc[s] = "read"
                      /\ content'[s] = SubSeq(written[s], rpos[s] + 1, rpos'[s])
                /\ (pc[s] = "read" /\ pc'[s] # "read") =>
                      pc'[s] = IF Len(content'[s]) > 0 /\ callbacks[s] > 0
                               THEN "callback" ELSE "close"
                /\ (pc[s] = "callback" /\ pc'[s] \notin {"callback", "raised"}) =>
                      /\ cb[s] = callbacks[s]
                      /\ pc'[s] = IF Len(content[s]) < buffer_size.size
                                  THEN "close" ELSE "read"
                /\ (pc[s] = "close" /\ pc'[s] # "close") =>
                      (pc'[s] = "set_result" /\ rclosed'[s])
                /\ (pc[s] = "set_result" /\ pc'[s] # "set_result") => pc'[s] = "done"
                /\ pc[s] = "done" => pc'[s] = "done" ]_vars

\* C19 witness: with N = 2 the child wrote three bytes to stdout; both
\* callbacks got a chunk of two bytes and a chunk of one, and the future is
\* resolved.
C19_Witness ==
    /\ ~buffer_size.line /\ buffer_size.size = 2
    /\ callbacks["stdout"] = 2
    /\ future["stdout"] = 1
    /\ Len(written["stdout"]) = 3
    /\ \A i \in 1..2 :
          delivered["stdout"][i] = <<SubSeq(written["stdout"], 1, 2),
                                    SubSeq(written["stdout"], 3, 3)>>

\* ------------------------------------------ claims: calls in two threads
\* the cache of the function the threads call
Cache == IF \A t \in Threads : threads[t].op = "open" THEN _OPEN_CACHE ELSE _QUERY_CACHE
\* the entry a thread writes at its store
EntryOf(th) ==
    IF th.op = "open" THEN [data |-> th.data, stat |-> th.token]
    ELSE [data |-> th.data, status |-> th.token]

\* C13: whatever the interleaving of two calls of open() (or of query()) on
\* one key, the key has one entry once a call has stored, and it is the whole
\* entry of the call that stored last; a call that returns without an error
\* returns with the key in the cache.
C13_LastWriteWins ==
    /\ DOMAIN Cache = DOMAIN lastStore
    /\ \A k \in DOMAIN lastStore : Cache[k] = lastStore[k].entry
    /\ \A t \in Threads :
          (threads[t].pc = "return" /\ threads[t].error = None) =>
             threads[t].key \in DOMAIN Cache

\* C13 witness: both calls of open() on one key saw no entry, both ran the
\* loader and both stored, with different data; the cache holds the entry of
\* the one that stored last.
C13_Witness ==
    /\ \A t \in Threads :
          /\ threads[t].op = "open" /\ threads[t].pc = "return"
          /\ threads[t].snap = <<>> /\ threads[t].reloaded /\ threads[t].error = None
    /\ threads["t1"].key = threads["t2"].key
    /\ threads["t1"].data # threads["t2"].data
    /\ lastStore[threads["t1"].key].by = "t1"
    /\ _OPEN_CACHE[threads["t1"].key].data = threads["t1"].data
    /\ threads["t2"].result = threads["t1"].data

\* C16: in every step of calls of open() and query(), those that fail
\* included, each cache keeps all its keys; a cache changes only in the store
\* of a call, which puts the whole entry {data, token} of that call under its
\* key and leaves the other keys as they are; a call that fails stores nothing.
C16_OnlyGrows ==
    [][ /\ DOMAIN _OPEN_CACHE \subseteq DOMAIN _OPEN_CACHE'
        /\ DOMAIN _QUERY_CACHE \subseteq DOMAIN _QUERY_CACHE'
        /\ (_OPEN_CACHE' # _OPEN_CACHE \/ _QUERY_CACHE' # _QUERY_CACHE) =>
              \E t \in Threads :
                  threads[t].pc = "store" /\ threads'[t].pc = "result"
        /\ \A t \in Threads :
              LET th == threads[t]
              IN  /\ (th.pc = "store" /\ threads'[t].pc = "result") =>
                        /\ th.key \in DOMAIN Cache'
                        /\ Cache'[th.key] = EntryOf(th)
                        /\ \A k \in DOMAIN Cache : k # th.key => Cache'[k] = Cache[k]
                  /\ (th.pc # "return" /\ threads'[t].pc = "return"
                      /\ threads'[t].error # None) =>
                        (_OPEN_CACHE' = _OPEN_CACHE /\ _QUERY_CACHE' = _QUERY_CACHE)
      ]_vars

\* C16 witness: a call of query() has just replaced the entry it had read,
\* which had another status, while the call of the other thread has failed.
C16_Witness ==
    \E t \in Threads :
        LET th == threads[t]
        IN  /\ th.op = "query" /\ th.pc = "result"
            /\ th.key \in DOMAIN th.snap
            /\ th.snap[th.key].status # th.token
            /\ _QUERY_CACHE[th.key] = EntryOf(th)
            /\ \E u \in Threads : threads[u].pc = "return" /\ threads[u].error # None

\* C26: when the child has closed both of its output streams, then, the
\* threads of the two streams being scheduled fairly, each thread whose
\* callbacks do not raise ends after it has resolved the future of its stream
\* once and closed the stream, in line mode and in chunk mode.
Finished(s) == pc[s] = "done" /\ future[s] = 1 /\ rclosed[s]
C26_ReadersTerminate ==
    (\A s \in Streams : wclosed[s])
        ~> (\A s \in Streams : Finished(s) \/ pc[s] = AfterRaise)

\* C26 witness: both threads have ended with their futures resolved, each
\* after it called a callback with what the child wrote, in chunk mode.
C26_Witness ==
    /\ ~buffer_size.line
    /\ \A s \in Streams : /\ wclosed[s] /\ Finished(s)
                          /\ callbacks[s] > 0
                          /\ delivered[s][1] # <<>>

\* C24: when the loader or the transform raises in a call of open(), or
\* read_sql raises in a call of query(), the call ends with that error after
\* it ran the loader (the sql), the cache is exactly as it was before the call
\* (the entry of the key, if any, with its value and its token; no entry
\* otherwise), and the same call made next, the file and the database as they
\* are, runs the loader (the sql) again.
C24_FailedCallLeavesCache ==
    [][ /\ (ret'.op = "open" /\ ret'.error \in {"LoaderError", "TransformError"}) =>
             /\ ret'.loaded
             /\ _OPEN_CACHE' = _OPEN_CACHE
             /\ OpenCall(_OPEN_CACHE', files', ret'.path, ret'.callback,
                         ret'.transform, ret'.kw, FALSE, FALSE).ret.loaded
        /\ (ret'.op = "query" /\ ret'.error = "SqlError") =>
             /\ ret'.executed
             /\ _QUERY_CACHE' = _QUERY_CACHE
             /\ QueryCall(_QUERY_CACHE', _STATUS_METHODS', dbstate', ret'.sql,
                          conn', ret'.state, FALSE).ret.executed ]_vars

\* C24 witness: the transform raised in a call of open() that found an entry
\* with another token than the file's; the entry is still there.
C24_Witness ==
    /\ ret.op = "open" /\ ret.error = "TransformError"
    /\ ret.key \in DOMAIN _OPEN_CACHE
    /\ _OPEN_CACHE[ret.key].stat # ret.fstat
    /\ ret.fstat = stat(files[ret.path])

\* the keys of the entries whose value a loader loaded from a path
LoadedBy(path, callback) ==
    {k \in DOMAIN _OPEN_CACHE : /\ _OPEN_CACHE[k].data.by = callback
                                /\ _OPEN_CACHE[k].data.path = path}

\* C25: a call of open() for a path and a loader of which the cache has an
\* entry with the file's token returns the value of that entry with
\* reloaded=False, without calling the loader, and leaves the cache as it is,
\* whatever transform and keyword options it passes; a call of query() that
\* ends without an error leaves one entry under (sql, engine.url) whatever
\* the kind of its state, and returns the value stored there with
\* reloaded=False when the stored status is the status of the call.
C25_KeyIgnoresOptions ==
    [][ /\ ret'.op = "open" =>
             \A k \in LoadedBy(ret'.path, ret'.callback) :
                _OPEN_CACHE[k].stat = stat(files[ret'.path]) =>
                   /\ ret'.error = None
                   /\ ~ret'.reloaded /\ ~ret'.loaded
                   /\ ret'.result = _OPEN_CACHE[k].data
                   /\ _OPEN_CACHE' = _OPEN_CACHE
        /\ (ret'.op = "query" /\ ret'.error = None) =>
             LET key == <<ret'.sql, ret'.engine.url>>
             IN  /\ DOMAIN _QUERY_CACHE' = DOMAIN _QUERY_CACHE \cup {key}
                 /\ (key \in DOMAIN _QUERY_CACHE
                       /\ _QUERY_CACHE[key].status = ret'.status) =>
                        /\ ~ret'.reloaded
                        /\ ret'.result = _QUERY_CACHE[key].data
                        /\ _QUERY_CACHE' = _QUERY_CACHE ]_vars

\* C25 witness: a call of open() returned, with reloaded=False, a value that
\* was loaded with another keyword option and another transform than its own.
C25_Witness ==
    /\ ret.op = "open" /\ ret.error = None /\ ~ret.reloaded
    /\ ret.result.kw # ret.kw
    /\ ret.result.tf # ret.transform
    /\ callable(ret.transform)

\* C22: under every interleaving of the calls of open() of two threads with
\* changes of the file that each give it a token it never had, an entry whose
\* stored token is the file's token now holds the value loaded from the
\* file's content now; so an entry with a value loaded from other content
\* than the file's is a miss for the next call of open().
C22_CurrentTokenCurrentContent ==
    \A k \in DOMAIN _OPEN_CACHE :
        LET f == files[k[1]]
        IN  /\ _OPEN_CACHE[k].stat = stat(f) => _OPEN_CACHE[k].data.content = f.content
            /\ _OPEN_CACHE[k].data.content # f.content => IsMiss(_OPEN_CACHE, k, stat(f))

\* C22 witness: the file changed between the stat and the load of a call,
\* which stored the token of before with the content of after; the entry is
\* a miss now.
C22_Witness ==
    \E t \in Threads :
        LET th == threads[t]
            f == files[th.key[1]]
        IN  /\ th.op = "open" /\ th.pc = "result" /\ th.reloaded
            /\ th.key \in DOMAIN _OPEN_CACHE
            /\ _OPEN_CACHE[th.key] = OpenEntry(th, files)
            /\ th.token # stat(f)
            /\ th.token # NoneStat
            /\ th.data.content = f.content
            /\ IsMiss(_OPEN_CACHE, th.key, stat(f))

\* C23: a call of open() (or of query()) that is about to return with
\* reloaded = True and no error returns the value its own loader (or its own
\* execution of the sql) produced, whatever the other thread stored between
\* the store of this call and its return.
C23_ReturnsOwnValue ==
    \A t \in Threads :
        LET th == threads[t]
        IN  (th.pc = "return" /\ th.reloaded /\ th.error = None) =>
               th.result = th.data

Init == InitOpen /\ InitQuery /\ InitModule /\ InitProc /\ InitConc /\ ret = NoRet

\* Each component is checked with the others at rest: the application has one
\* engine and one file system.
ProcAtRest == buffer_size = LineMode /\ ~rawio /\ callbacks = [s \in Streams |-> 0]
ConcAtRest == threads = [t \in Threads |-> Idle("open")]
InitOpenOnly == Init /\ conn = MySQL /\ ProcAtRest /\ ConcAtRest
InitQueryOnly == Init /\ ProcAtRest /\ ConcAtRest /\ \A p \in Paths : files[p] = NoFile
InitModuleOnly == InitQueryOnly /\ conn = MySQL
InitProcOnly == Init /\ conn = MySQL /\ ConcAtRest /\ \A p \in Paths : files[p] = NoFile
\* The fair threads are checked with at most one callback for each stream.
InitProcFair == InitProcOnly /\ \A s \in Streams : callbacks[s] <= 1
\* The threads are checked with the file and the database at rest: what the
\* calls of a key differ in is their keyword options and their state.
FilesAtRest ==
    files = [p \in Paths |-> [exists |-> TRUE, mtime |-> 1, content |-> <<"a">>]]
InitConcOnly == Init /\ conn = MySQL /\ ProcAtRest /\ FilesAtRest

\* The calls of open() of the threads are also checked with a file that
\* changes, from the file the threads are checked with at rest.
InitFreshOnly == Init /\ conn = MySQL /\ ProcAtRest /\ ConcAtRest /\ FilesAtRest

\* The application calls one of the two functions, with all the options a
\* call can differ in; no thread is in the middle of a call.
Calls(op) == \A t \in Threads : threads[t] = Idle(op)
InitCallsOnly ==
    /\ Init /\ ProcAtRest
    /\ \/ Calls("open") /\ conn = MySQL
       \/ Calls("query") /\ \A p \in Paths : files[p] = NoFile

NextOpen == open \/ WriteFile \/ DeleteFile
OpenOfCalls == Calls("open") /\ open_options
WriteOfCalls == Calls("open") /\ WriteFile
DeleteOfCalls == Calls("open") /\ DeleteFile
QueryOfCalls == Calls("query") /\ query
ChangeOfCalls == Calls("query") /\ ChangeDb
NextCalls ==
    OpenOfCalls \/ WriteOfCalls \/ DeleteOfCalls \/ QueryOfCalls \/ ChangeOfCalls

SpecOpen == InitOpenOnly /\ [][NextOpen]_vars
SpecQuery == InitQueryOnly /\ [][NextQuery]_vars
SpecTables == InitQueryOnly /\ [][NextTables]_vars
SpecModule == InitModuleOnly /\ [][NextModule]_vars
SpecProc == InitProcOnly /\ [][NextProc]_vars
SpecProcFair == InitProcFair /\ [][NextProc]_vars /\ FairReaders
SpecConc == InitConcOnly /\ [][NextConc]_vars
SpecFresh == InitFreshOnly /\ [][NextFresh]_vars
SpecCalls == InitCallsOnly /\ [][NextCalls]_vars

Next ==
    \/ NextOpen \/ NextQuery \/ NextTables \/ NextModule \/ NextProc \/ NextConc
    \/ NextFresh \/ NextCalls
Spec == Init /\ [][Next]_vars
====
